---- MODULE Spec2Model ----
(***************************************************************************)
(* Model of software/user/m2sdr_rf.c: the bring-up sequence of m2sdr_init  *)
(* and its PRBS based RX/TX clock/data delay calibration.                  *)
(*                                                                         *)
(* One action per top-level step of m2sdr_init (one comment-delimited      *)
(* block of the source); the two scan loops take one action per loop       *)
(* iteration (one probe).  `trace` is the sequence of calls m2sdr_init has *)
(* made to the hardware facades (litepcie_*, m2sdr_*, ad9361_*, mdelay).   *)
(***************************************************************************)
EXTENDS Integers, Sequences, FiniteSets, TLC

(***************************************************************************)
(* Program constants                                                       *)
(***************************************************************************)

\* Number of clock-delay taps and of data-delay taps (the literal 16 of the
\* loops and of the array dimensions).
NTAPS == 16

\* mdelay(10) between the delay write and the status read.
SETTLE_MS == 10

\* ad9361.h register addresses of the two clock/data delay registers.
REG_RX_CLOCK_DATA_DELAY == 6

REG_TX_CLOCK_DATA_DELAY == 7

\* csr.h: bit offset of the enable field of the PRBS TX control register.
CSR_AD9361_PRBS_TX_ENABLE_OFFSET == 0

\* ad9361.h: DATA_CLK_DELAY(x) is ((x) & 0xF) << 4.  The source ORs it with
\* RX_DATA_DELAY(y); the two fields share no bit, so the OR is their sum.
DATA_CLK_DELAY(x) == (x % 16) * 16

\* ad9361.h: RX_DATA_DELAY(x) is ((x) & 0xF) << 0.
RX_DATA_DELAY(x) == x % 16

\* Compile-time antenna mode (#ifdef _1T1R_MODE): value written to
\* CSR_AD9361_PHY_CONTROL_ADDR.  The default build is 2T2R.
PhyControlValue == IF FALSE THEN 1 ELSE 0

Taps == 0..(NTAPS - 1)

\* int x[16][16] = {{0}}
ZeroGrid == [c \in Taps |-> [d \in Taps |-> 0]]

(***************************************************************************)
(* Bounds of the model                                                     *)
(***************************************************************************)

\* Under Spec the PRBS checker may report lock only at LockWidth consecutive
\* data delays of one clock-delay row; everywhere else it reads 0.
LockWidth == 1

\* Under Spec an RfConfig requests at most MaxOptions of the six optional
\* features (internal loopback, TX tone, RX tone, PRBS test, 8-bit mode,
\* oversampling).
MaxOptions == 2

\* Under SelSpec the grids handed to the selection are every pattern inside
\* a window of two rows by WinCols columns placed at a corner of the tap grid,
\* plus every single run of a few rows, pairs of runs in two rows and the
\* full grid.
WinCols == 3

\* Under SpiSpec the byte counts n_tx and n_rx handed to spi_write_then_read
\* range over 0..MaxSpiLen.
MaxSpiLen == 3

\* Under ParamSpec the requested sample rates are 0..MaxSmallRate and a few
\* large ones, the requested TX gains -MaxSmallGain..MaxSmallGain and a few
\* larger ones.
MaxSmallRate == 3

MaxSmallGain == 2

(***************************************************************************)
(* Hardware calls, as trace events                                         *)
(***************************************************************************)

Call(name) == [op |-> name]

CallArg(name, arg) == [op |-> name, arg |-> arg]

CallCh(name, ch, arg) == [op |-> name, ch |-> ch, arg |-> arg]

CallMode(name, mode) == [op |-> name, mode |-> mode]

\* ad9361_bist_tone(phy, mode, freq_Hz, level_dB, mask)
CallTone(mode, freq) ==
    [op |-> "ad9361_bist_tone", mode |-> mode, freq |-> freq, level |-> 0, mask |-> 0]

\* ad9361_set_tx_atten(phy, attenuation_mdB, tx1, tx2, immed)
CallAtten(mdb) ==
    [op |-> "ad9361_set_tx_atten", arg |-> mdb, tx1 |-> 1, tx2 |-> 1, immed |-> 1]

Writel(csr, val) == [op |-> "litepcie_writel", csr |-> csr, val |-> val]

Readl(csr, val) == [op |-> "litepcie_readl", csr |-> csr, val |-> val]

SpiWrite(reg, val) == [op |-> "m2sdr_ad9361_spi_write", reg |-> reg, val |-> val]

Mdelay(ms) == [op |-> "mdelay", ms |-> ms]

\* A probe that reads the status before the settle wait.
ProbeEventsReadEarly(reg, clk, dat, word) ==
    << SpiWrite(reg, DATA_CLK_DELAY(clk) + RX_DATA_DELAY(dat)),
       Readl("CSR_AD9361_PRBS_RX_ADDR", word),
       Mdelay(SETTLE_MS) >>

\* The three calls of one probe, in program order: write the tap pair,
\* settle, read the status (`word` is what the read returns).
ProbeEvents(reg, clk, dat, word) ==
    << SpiWrite(reg, DATA_CLK_DELAY(clk) + RX_DATA_DELAY(dat)),
       Mdelay(SETTLE_MS),
       Readl("CSR_AD9361_PRBS_RX_ADDR", word) >>

\* The fixed oversampling recipe: (register, value) in program order.
OversampleWrites ==
    << <<\h003, \h54>>,
       <<\h02, \hc0>>, <<\hc2, \h9f>>, <<\hc3, \h9f>>, <<\hc4, \h9f>>, <<\hc5, \h9f>>,
       <<\hc6, \h9f>>, <<\hc7, \h00>>, <<\hc8, \h00>>, <<\hc9, \h00>>,
       <<\h1e0, \hBF>>, <<\h1e4, \hFF>>, <<\h1f2, \hFF>>,
       <<\h1e7, \h00>>, <<\h1e8, \h00>>, <<\h1e9, \h00>>, <<\h1ea, \h00>>, <<\h1eb, \h00>>,
       <<\h1ec, \h00>>, <<\h1ed, \h00>>, <<\h1ee, \h00>>, <<\h1ef, \h00>>, <<\h1e0, \hBF>>,
       <<\h3f6, \h03>> >>

OversampleEvents ==
    [i \in 1..Len(OversampleWrites) |-> SpiWrite(OversampleWrites[i][1], OversampleWrites[i][2])]

(***************************************************************************)
(* Selection of the optimal delays (pure part of m2sdr_init)               *)
(***************************************************************************)

\* Result of the search before any cell was looked at:
\* optimal_*_clk_delay = -1, optimal_*_dat_delay = -1, max_valid_delays = 0.
NoOptimal == [max_valid_delays |-> 0, clk |-> -1, dat |-> -1]

\* for (int i = rx_dat_delay; i < 16 && rx_valid_delays[rx_clk_delay][i] == 1; i++)
\*     valid_count++;
RECURSIVE RxValidCount(_, _, _)
RxValidCount(grid, clk, i) ==
    IF i < NTAPS /\ grid[clk][i] = 1 THEN 1 + RxValidCount(grid, clk, i + 1) ELSE 0

\* The loop body with the comparison >= in place of >.
RxFindCellGe(grid, st, clk, dat) ==
    IF grid[clk][dat] = 1
    THEN LET valid_count == RxValidCount(grid, clk, dat)
         IN  IF valid_count >= st.max_valid_delays
             THEN [max_valid_delays |-> valid_count,
                   clk |-> clk,
                   dat |-> dat + valid_count \div 2]
             ELSE st
    ELSE st

\* The loop body without the assignment max_valid_delays = valid_count.
RxFindCellKeepsMax(grid, st, clk, dat) ==
    IF grid[clk][dat] = 1
    THEN LET valid_count == RxValidCount(grid, clk, dat)
         IN  IF valid_count > st.max_valid_delays
             THEN [max_valid_delays |-> st.max_valid_delays,
                   clk |-> clk,
                   dat |-> dat + valid_count \div 2]
             ELSE st
    ELSE st

\* The loop body with the centre rounded up.
RxFindCellCeil(grid, st, clk, dat) ==
    IF grid[clk][dat] = 1
    THEN LET valid_count == RxValidCount(grid, clk, dat)
         IN  IF valid_count > st.max_valid_delays
             THEN [max_valid_delays |-> valid_count,
                   clk |-> clk,
                   dat |-> dat + (valid_count + 1) \div 2]
             ELSE st
    ELSE st

\* Body of the inner RX selection loop for the cell (clk, dat).
RxFindCell(grid, st, clk, dat) ==
    IF grid[clk][dat] = 1
    THEN LET valid_count == RxValidCount(grid, clk, dat)
         IN  IF valid_count > st.max_valid_delays
             THEN [max_valid_delays |-> valid_count,
                   clk |-> clk,
                   dat |-> dat + valid_count \div 2]
             ELSE st
    ELSE st

\* The inner RX selection loop of row clk, from column dat on.
RECURSIVE RxFindRow(_, _, _, _)
RxFindRow(grid, st, clk, dat) ==
    IF dat >= NTAPS THEN st
    ELSE RxFindRow(grid, RxFindCell(grid, st, clk, dat), clk, dat + 1)

\* The outer RX selection loop, from row clk on.
RECURSIVE RxFindFrom(_, _, _)
RxFindFrom(grid, st, clk) ==
    IF clk >= NTAPS THEN st
    ELSE LET row == RxFindRow(grid, st, clk, 0)
         IN  \* max_valid_delays is never negative: the test only makes TLC
             \* finish a row before it starts the next one.
             IF row.max_valid_delays >= 0 THEN RxFindFrom(grid, row, clk + 1) ELSE row

\* The TX copy of the same code.
RECURSIVE TxValidCount(_, _, _)
TxValidCount(grid, clk, i) ==
    IF i < NTAPS /\ grid[clk][i] = 1 THEN 1 + TxValidCount(grid, clk, i + 1) ELSE 0

\* The TX loop body with the end of the run in place of its centre.
TxFindCellPastEnd(grid, st, clk, dat) ==
    IF grid[clk][dat] = 1
    THEN LET valid_count == TxValidCount(grid, clk, dat)
         IN  IF valid_count > st.max_valid_delays
             THEN [max_valid_delays |-> valid_count,
                   clk |-> clk,
                   dat |-> dat + valid_count]
             ELSE st
    ELSE st

\* Body of the inner TX selection loop for the cell (clk, dat).
TxFindCell(grid, st, clk, dat) ==
    IF grid[clk][dat] = 1
    THEN LET valid_count == TxValidCount(grid, clk, dat)
         IN  IF valid_count > st.max_valid_delays
             THEN [max_valid_delays |-> valid_count,
                   clk |-> clk,
                   dat |-> dat + valid_count \div 2]
             ELSE st
    ELSE st

\* The inner TX selection loop of row clk, from column dat on.
RECURSIVE TxFindRow(_, _, _, _)
TxFindRow(grid, st, clk, dat) ==
    IF dat >= NTAPS THEN st
    ELSE TxFindRow(grid, TxFindCell(grid, st, clk, dat), clk, dat + 1)

\* The outer TX selection loop, from row clk on.
RECURSIVE TxFindFrom(_, _, _)
TxFindFrom(grid, st, clk) ==
    IF clk >= NTAPS THEN st
    ELSE LET row == TxFindRow(grid, st, clk, 0)
         IN  \* max_valid_delays is never negative: the test only makes TLC
             \* finish a row before it starts the next one.
             IF row.max_valid_delays >= 0 THEN TxFindFrom(grid, row, clk + 1) ELSE row

(***************************************************************************)
(* State                                                                   *)
(***************************************************************************)

VARIABLES
    pc,                     \* position of m2sdr_init (the step about to run)
    exit_status,            \* -1 while running, then the process exit status
    keep_running,           \* sig_atomic_t keep_running
    cfg,                    \* the parameters of m2sdr_init that are never assigned
    samplerate,             \* the parameter samplerate (assigned when oversampling)
    rx_clk_delay, rx_dat_delay, tx_clk_delay, tx_dat_delay,
    rx_valid_delays, tx_valid_delays,
    optimal_rx_clk_delay, optimal_rx_dat_delay,
    optimal_tx_clk_delay, optimal_tx_dat_delay,
    max_valid_delays,
    trace                   \* the hardware calls made so far, in program order

cal_vars == << rx_clk_delay, rx_dat_delay, tx_clk_delay, tx_dat_delay,
               rx_valid_delays, tx_valid_delays,
               optimal_rx_clk_delay, optimal_rx_dat_delay,
               optimal_tx_clk_delay, optimal_tx_dat_delay, max_valid_delays >>

rx_vars == << rx_clk_delay, rx_dat_delay, rx_valid_delays,
              optimal_rx_clk_delay, optimal_rx_dat_delay >>

tx_vars == << tx_clk_delay, tx_dat_delay, tx_valid_delays,
              optimal_tx_clk_delay, optimal_tx_dat_delay >>

vars == << pc, exit_status, keep_running, cfg, samplerate, cal_vars, trace >>

(***************************************************************************)
(* Inputs                                                                  *)
(***************************************************************************)

\* Requested sample rates (uint32_t).
SampleRates == {30720000}

\* The RfConfig values main can hand to m2sdr_init.
AllRfConfigs ==
    [ bandwidth         : {56000000},
      tx_freq           : {100000000},
      rx_freq           : {100000000},
      tx_gain           : {-20},
      rx_gain           : {0},
      loopback          : {0, 1},
      bist_tx_tone      : BOOLEAN,
      bist_rx_tone      : BOOLEAN,
      bist_prbs         : BOOLEAN,
      bist_tone_freq    : {1000000},
      enable_8bit_mode  : BOOLEAN,
      enable_oversample : BOOLEAN ]

OptionCount(c) ==
    Cardinality({f \in {"bist_tx_tone", "bist_rx_tone", "bist_prbs",
                        "enable_8bit_mode", "enable_oversample"} : c[f]})
      + c.loopback

RfConfigs == {c \in AllRfConfigs : OptionCount(c) <= MaxOptions}

\* The cells at which the PRBS checker may lock under Spec: a window of the
\* last row, so that the reads before it are the same 0 in every run.
LockCells == {<<15, 13 + k>> : k \in 0..(LockWidth - 1)}

\* The values litepcie_readl(fd, CSR_AD9361_PRBS_RX_ADDR) may return while the
\* delays are (clk, dat): bit 0 is the lock bit; 2 is a word with another bit
\* set and the lock bit clear.
StatusWords(clk, dat) == IF <<clk, dat>> \in LockCells THEN {1, 2} ELSE {0}

(***************************************************************************)
(* The calls of each step of m2sdr_init                                    *)
(***************************************************************************)

Si5351Calls == << Call("m2sdr_si5351_i2c_config") >>

SpiInitCalls == << CallArg("m2sdr_ad9361_spi_init", 1) >>

Ad9361InitCalls == << Call("ad9361_init") >>

\* A halving that does not look at enable_oversample.
HalvedRateAlways(c, rate) == rate \div 2

\* if (enable_oversample) samplerate /= 2;
HalvedRate(c, rate) == IF c.enable_oversample THEN rate \div 2 ELSE rate

SamplerateCalls(rate) ==
    << CallArg("ad9361_set_tx_sampling_freq", rate),
       CallArg("ad9361_set_rx_sampling_freq", rate) >>

BandwidthCalls(c) ==
    << CallArg("ad9361_set_rx_rf_bandwidth", c.bandwidth),
       CallArg("ad9361_set_tx_rf_bandwidth", c.bandwidth) >>

LoFreqCalls(c) ==
    << CallArg("ad9361_set_tx_lo_freq", c.tx_freq),
       CallArg("ad9361_set_rx_lo_freq", c.rx_freq) >>

FirCalls == << Call("ad9361_set_tx_fir_config"), Call("ad9361_set_rx_fir_config") >>

\* An attenuation that keeps the sign of the gain.
TxAttenCallsSameSign(c) == << CallAtten(c.tx_gain * 1000) >>

TxAttenCalls(c) == << CallAtten((-c.tx_gain) * 1000) >>

RxGainCalls(c) ==
    << CallCh("ad9361_set_rx_rf_gain", 0, c.rx_gain),
       CallCh("ad9361_set_rx_rf_gain", 1, c.rx_gain) >>

LoopbackCalls(c) == << CallArg("ad9361_bist_loopback", c.loopback) >>

\* The antenna-mode register written ahead of the bit-mode register.
PhyControlBeforeBitModeCalls(c) ==
    << Writel("CSR_AD9361_PHY_CONTROL_ADDR", PhyControlValue),
       Writel("CSR_AD9361_BITMODE_ADDR", IF c.enable_8bit_mode THEN 1 ELSE 0) >>

BitModeCalls(c) ==
    << Writel("CSR_AD9361_BITMODE_ADDR", IF c.enable_8bit_mode THEN 1 ELSE 0) >>

PhyControlCalls == << Writel("CSR_AD9361_PHY_CONTROL_ADDR", PhyControlValue) >>

BistTxToneCalls(c) ==
    IF c.bist_tx_tone THEN << CallTone("BIST_INJ_TX", c.bist_tone_freq) >> ELSE << >>

BistRxToneCalls(c) ==
    IF c.bist_rx_tone THEN << CallTone("BIST_INJ_RX", c.bist_tone_freq) >> ELSE << >>

\* Enable AD9361 RX-PRBS: FPGA TX-PRBS off, then ad9361_bist_prbs(BIST_INJ_RX).
PrbsRxEnableCalls ==
    << Writel("CSR_AD9361_PRBS_TX_ADDR", 0 * (2 ^ CSR_AD9361_PRBS_TX_ENABLE_OFFSET)),
       CallMode("ad9361_bist_prbs", "BIST_INJ_RX") >>

\* A commit that writes the delays whether or not they were found.
CommitCallsUnconditional(reg, clk, dat) ==
    << SpiWrite(reg, DATA_CLK_DELAY(clk) + RX_DATA_DELAY(dat)) >>

\* if (optimal_clk != -1 && optimal_dat != -1) m2sdr_ad9361_spi_write(...)
CommitCalls(reg, clk, dat) ==
    IF clk # -1 /\ dat # -1
    THEN << SpiWrite(reg, DATA_CLK_DELAY(clk) + RX_DATA_DELAY(dat)) >>
    ELSE << >>

LoopbackOnCalls == << CallArg("ad9361_bist_loopback", 1) >>

TxPrbsOnCalls ==
    << Writel("CSR_AD9361_PRBS_TX_ADDR", 1 * (2 ^ CSR_AD9361_PRBS_TX_ENABLE_OFFSET)) >>

\* Overrides applied whatever enable_oversample says.
OversampleCallsAlways(c) == OversampleEvents

OversampleCalls(c) == IF c.enable_oversample THEN OversampleEvents ELSE << >>

\* Everything m2sdr_init calls before the PRBS block, for the requested rate.
PrefixCalls(c, rate) ==
    Si5351Calls \o SpiInitCalls \o Ad9361InitCalls
      \o SamplerateCalls(HalvedRate(c, rate)) \o BandwidthCalls(c) \o LoFreqCalls(c)
      \o FirCalls \o TxAttenCalls(c) \o RxGainCalls(c) \o LoopbackCalls(c)
      \o BitModeCalls(c) \o PhyControlCalls \o BistTxToneCalls(c) \o BistRxToneCalls(c)

\* The calls of the inner scan loop of row clk, from column dat on, when the
\* status reads are the cells of `grid`.
RECURSIVE RowCalls(_, _, _, _)
RowCalls(reg, grid, clk, dat) ==
    IF dat >= NTAPS THEN << >>
    ELSE ProbeEvents(reg, clk, dat, grid[clk][dat]) \o RowCalls(reg, grid, clk, dat + 1)

\* The calls of a whole scan loop, from row clk on.
RECURSIVE ScanCallsFrom(_, _, _)
ScanCallsFrom(reg, grid, clk) ==
    IF clk >= NTAPS THEN << >>
    ELSE RowCalls(reg, grid, clk, 0) \o ScanCallsFrom(reg, grid, clk + 1)

ScanCalls(reg, grid) == ScanCallsFrom(reg, grid, 0)

(***************************************************************************)
(* Initial state: entry of m2sdr_init, keep_running = 1                    *)
(***************************************************************************)

InitLocals ==
    /\ rx_clk_delay = 0 /\ rx_dat_delay = 0
    /\ tx_clk_delay = 0 /\ tx_dat_delay = 0
    /\ rx_valid_delays = ZeroGrid
    /\ tx_valid_delays = ZeroGrid
    /\ optimal_rx_clk_delay = -1 /\ optimal_rx_dat_delay = -1
    /\ optimal_tx_clk_delay = -1 /\ optimal_tx_dat_delay = -1
    /\ max_valid_delays = 0

Init ==
    /\ pc = "open"
    /\ exit_status = -1
    /\ keep_running = 1
    /\ cfg \in RfConfigs
    /\ samplerate \in SampleRates
    /\ InitLocals
    /\ trace = << >>

(***************************************************************************)
(* The signal handler                                                      *)
(***************************************************************************)

\* void intHandler(int dummy) { keep_running = 0; }
\* main installs no handler and nothing reads keep_running; the action is the
\* handler being run while the process is alive.
intHandler ==
    /\ pc \notin {"done", "exit"}
    /\ keep_running' = 0
    /\ UNCHANGED << pc, exit_status, cfg, samplerate, cal_vars, trace >>

(***************************************************************************)
(* m2sdr_init, step by step                                                *)
(***************************************************************************)

\* A step that makes the calls `evs` and goes on to `next`.
Step(here, evs, next) ==
    /\ pc = here
    /\ trace' = trace \o evs
    /\ pc' = next
    /\ UNCHANGED << exit_status, keep_running, cfg, samplerate, cal_vars >>

\* An open whose failure is reported while bring-up goes on.
OpenFailureIgnored ==
    /\ pc = "open"
    /\ pc' = "si5351"
    /\ \E ok \in BOOLEAN : exit_status' = IF ok THEN exit_status ELSE 1
    /\ UNCHANGED << keep_running, cfg, samplerate, cal_vars, trace >>

\* fd = open(litepcie_device, O_RDWR); if (fd < 0) exit(1);
Open ==
    /\ pc = "open"
    /\ \E ok \in BOOLEAN :
          IF ok
          THEN pc' = "si5351" /\ exit_status' = exit_status
          ELSE pc' = "exit" /\ exit_status' = 1
    /\ UNCHANGED << keep_running, cfg, samplerate, cal_vars, trace >>

Si5351 == Step("si5351", Si5351Calls, "spi_init")

SpiInit == Step("spi_init", SpiInitCalls, "ad9361_init")

Ad9361Init == Step("ad9361_init", Ad9361InitCalls, "samplerate")

Samplerate ==
    /\ pc = "samplerate"
    /\ samplerate' = HalvedRate(cfg, samplerate)
    /\ trace' = trace \o SamplerateCalls(samplerate')
    /\ pc' = "bandwidth"
    /\ UNCHANGED << exit_status, keep_running, cfg, cal_vars >>

Bandwidth == Step("bandwidth", BandwidthCalls(cfg), "lo_freq")

LoFreq == Step("lo_freq", LoFreqCalls(cfg), "fir")

Fir == Step("fir", FirCalls, "tx_atten")

TxAtten == Step("tx_atten", TxAttenCalls(cfg), "rx_gain")

RxGain == Step("rx_gain", RxGainCalls(cfg), "loopback")

Loopback == Step("loopback", LoopbackCalls(cfg), "bitmode")

BitMode == Step("bitmode", BitModeCalls(cfg), "phy_control")

PhyControl == Step("phy_control", PhyControlCalls, "bist_tx_tone")

BistTxTone == Step("bist_tx_tone", BistTxToneCalls(cfg), "bist_rx_tone")

BistRxTone == Step("bist_rx_tone", BistRxToneCalls(cfg), "bist_prbs")

\* A PRBS block entered whatever bist_prbs says.
PrbsRxEnableAlways ==
    /\ pc = "bist_prbs"
    /\ trace' = trace \o PrbsRxEnableCalls
    /\ rx_clk_delay' = 0
    /\ rx_dat_delay' = 0
    /\ pc' = "rx_scan"
    /\ UNCHANGED << exit_status, keep_running, cfg, samplerate,
                    tx_clk_delay, tx_dat_delay, rx_valid_delays, tx_valid_delays,
                    optimal_rx_clk_delay, optimal_rx_dat_delay,
                    optimal_tx_clk_delay, optimal_tx_dat_delay, max_valid_delays >>

\* if (bist_prbs) { Enable AD9361 RX-PRBS; RX loop initialisation } else skip
\* the whole block.
PrbsRxEnable ==
    /\ pc = "bist_prbs"
    /\ IF cfg.bist_prbs
       THEN /\ trace' = trace \o PrbsRxEnableCalls
            /\ rx_clk_delay' = 0
            /\ rx_dat_delay' = 0
            /\ pc' = "rx_scan"
       ELSE /\ trace' = trace
            /\ rx_clk_delay' = rx_clk_delay
            /\ rx_dat_delay' = rx_dat_delay
            /\ pc' = "oversample"
    /\ UNCHANGED << exit_status, keep_running, cfg, samplerate,
                    tx_clk_delay, tx_dat_delay, rx_valid_delays, tx_valid_delays,
                    optimal_rx_clk_delay, optimal_rx_dat_delay,
                    optimal_tx_clk_delay, optimal_tx_dat_delay, max_valid_delays >>

\* The start of one iteration of the inner RX scan loop: configure the
\* Clk/Dat delays. The status word is not read yet: the first two calls of a
\* probe do not depend on it.
RxProbeWrite ==
    Step("rx_scan",
         << ProbeEvents(REG_RX_CLOCK_DATA_DELAY, rx_clk_delay, rx_dat_delay, 0)[1] >>,
         "rx_settle")

\* Small sleep to let PRBS synchronize.
RxProbeSettle ==
    Step("rx_settle",
         << ProbeEvents(REG_RX_CLOCK_DATA_DELAY, rx_clk_delay, rx_dat_delay, 0)[2] >>,
         "rx_read")

\* An RX probe that records the whole status word instead of its bit 0.
RxProbeWordRaw(word) ==
    /\ trace' = trace \o
          << ProbeEvents(REG_RX_CLOCK_DATA_DELAY, rx_clk_delay, rx_dat_delay, word)[3] >>
    /\ rx_valid_delays' =
          [rx_valid_delays EXCEPT ![rx_clk_delay][rx_dat_delay] = word]
    /\ IF rx_dat_delay + 1 < NTAPS
       THEN /\ rx_dat_delay' = rx_dat_delay + 1
            /\ rx_clk_delay' = rx_clk_delay
            /\ pc' = "rx_scan"
       ELSE /\ rx_clk_delay' = rx_clk_delay + 1
            /\ rx_dat_delay' = IF rx_clk_delay + 1 < NTAPS THEN 0 ELSE NTAPS
            /\ pc' = IF rx_clk_delay + 1 < NTAPS THEN "rx_scan" ELSE "rx_find"
    /\ UNCHANGED << exit_status, keep_running, cfg, samplerate, tx_vars,
                    optimal_rx_clk_delay, optimal_rx_dat_delay, max_valid_delays >>

\* The end of one iteration of the inner RX scan loop: the status read
\* returns `word`, its bit 0 is recorded, then the loop increments of both
\* loops.
RxProbeWord(word) ==
    /\ trace' = trace \o
          << ProbeEvents(REG_RX_CLOCK_DATA_DELAY, rx_clk_delay, rx_dat_delay, word)[3] >>
    /\ rx_valid_delays' =
          [rx_valid_delays EXCEPT ![rx_clk_delay][rx_dat_delay] = word % 2]
    /\ IF rx_dat_delay + 1 < NTAPS
       THEN /\ rx_dat_delay' = rx_dat_delay + 1
            /\ rx_clk_delay' = rx_clk_delay
            /\ pc' = "rx_scan"
       ELSE /\ rx_clk_delay' = rx_clk_delay + 1
            /\ rx_dat_delay' = IF rx_clk_delay + 1 < NTAPS THEN 0 ELSE NTAPS
            /\ pc' = IF rx_clk_delay + 1 < NTAPS THEN "rx_scan" ELSE "rx_find"
    /\ UNCHANGED << exit_status, keep_running, cfg, samplerate, tx_vars,
                    optimal_rx_clk_delay, optimal_rx_dat_delay, max_valid_delays >>

\* An RX scan loop that leaves as soon as a stop was requested.
RxProbeStoppable ==
    IF pc = "rx_scan" /\ keep_running = 0
    THEN /\ pc' = "rx_find"
         /\ UNCHANGED << exit_status, keep_running, cfg, samplerate, cal_vars, trace >>
    ELSE \/ RxProbeWrite
         \/ RxProbeSettle
         \/ /\ pc = "rx_read"
            /\ \E word \in StatusWords(rx_clk_delay, rx_dat_delay) : RxProbeWord(word)

\* One iteration of the inner RX scan loop, call by call: the handler may run
\* between any two calls of a probe.
RxProbe ==
    \/ RxProbeWrite
    \/ RxProbeSettle
    \/ /\ pc = "rx_read"
       /\ \E word \in StatusWords(rx_clk_delay, rx_dat_delay) : RxProbeWord(word)

\* Find optimal RX Clk/Dat delays: optimal_rx_* = -1, max_valid_delays = 0,
\* then the two loops, which leave both loop counters at 16.
RxFind ==
    /\ pc = "rx_find"
    /\ LET r == RxFindFrom(rx_valid_delays, NoOptimal, 0) IN
         /\ max_valid_delays' = r.max_valid_delays
         /\ optimal_rx_clk_delay' = r.clk
         /\ optimal_rx_dat_delay' = r.dat
    /\ rx_clk_delay' = NTAPS
    /\ rx_dat_delay' = NTAPS
    /\ pc' = "rx_commit"
    /\ UNCHANGED << exit_status, keep_running, cfg, samplerate, tx_vars,
                    rx_valid_delays, trace >>

\* An RX commit that treats "no valid setting" as fatal.
RxCommitFatal ==
    /\ pc = "rx_commit"
    /\ IF optimal_rx_clk_delay # -1 /\ optimal_rx_dat_delay # -1
       THEN /\ trace' = trace \o CommitCalls(REG_RX_CLOCK_DATA_DELAY,
                                              optimal_rx_clk_delay, optimal_rx_dat_delay)
            /\ pc' = "loopback_on"
            /\ exit_status' = exit_status
       ELSE /\ trace' = trace
            /\ pc' = "exit"
            /\ exit_status' = 1
    /\ UNCHANGED << keep_running, cfg, samplerate, cal_vars >>

\* Display, then configure the optimal RX delays when they were found.
RxCommit ==
    Step("rx_commit",
         CommitCalls(REG_RX_CLOCK_DATA_DELAY, optimal_rx_clk_delay, optimal_rx_dat_delay),
         "loopback_on")

\* A calibration that starts the TX scan without enabling the FPGA TX-PRBS.
LoopbackOnSkipsTxPrbs ==
    /\ pc = "loopback_on"
    /\ trace' = trace \o LoopbackOnCalls
    /\ tx_clk_delay' = 0
    /\ tx_dat_delay' = 0
    /\ pc' = "tx_scan"
    /\ UNCHANGED << exit_status, keep_running, cfg, samplerate, rx_vars,
                    tx_valid_delays, optimal_tx_clk_delay, optimal_tx_dat_delay,
                    max_valid_delays >>

\* Enable RX->TX AD9361 loopback.
LoopbackOn == Step("loopback_on", LoopbackOnCalls, "tx_prbs_on")

\* Enable FPGA TX-PRBS, then the TX loop initialisation.
TxPrbsOn ==
    /\ pc = "tx_prbs_on"
    /\ trace' = trace \o TxPrbsOnCalls
    /\ tx_clk_delay' = 0
    /\ tx_dat_delay' = 0
    /\ pc' = "tx_scan"
    /\ UNCHANGED << exit_status, keep_running, cfg, samplerate, rx_vars,
                    tx_valid_delays, optimal_tx_clk_delay, optimal_tx_dat_delay,
                    max_valid_delays >>

\* The start of one iteration of the inner TX scan loop, which writes the
\* delays to `reg`.
TxProbeWrite(reg) ==
    Step("tx_scan",
         << ProbeEvents(reg, tx_clk_delay, tx_dat_delay, 0)[1] >>,
         "tx_settle")

\* Small sleep to let PRBS synchronize.
TxProbeSettle(reg) ==
    Step("tx_settle",
         << ProbeEvents(reg, tx_clk_delay, tx_dat_delay, 0)[2] >>,
         "tx_read")

\* The end of one iteration of the inner TX scan loop: the status read
\* returns `word`, its bit 0 is recorded, then the loop increments of both
\* loops.
TxProbeWord(reg, word) ==
    /\ trace' = trace \o << ProbeEvents(reg, tx_clk_delay, tx_dat_delay, word)[3] >>
    /\ tx_valid_delays' =
          [tx_valid_delays EXCEPT ![tx_clk_delay][tx_dat_delay] = word % 2]
    /\ IF tx_dat_delay + 1 < NTAPS
       THEN /\ tx_dat_delay' = tx_dat_delay + 1
            /\ tx_clk_delay' = tx_clk_delay
            /\ pc' = "tx_scan"
       ELSE /\ tx_clk_delay' = tx_clk_delay + 1
            /\ tx_dat_delay' = IF tx_clk_delay + 1 < NTAPS THEN 0 ELSE NTAPS
            /\ pc' = IF tx_clk_delay + 1 < NTAPS THEN "tx_scan" ELSE "tx_find"
    /\ UNCHANGED << exit_status, keep_running, cfg, samplerate, rx_vars,
                    optimal_tx_clk_delay, optimal_tx_dat_delay, max_valid_delays >>

\* One iteration of the inner TX scan loop, call by call, the delays being
\* written to `reg`.
TxProbeReg(reg) ==
    \/ TxProbeWrite(reg)
    \/ TxProbeSettle(reg)
    \/ /\ pc = "tx_read"
       /\ \E word \in StatusWords(tx_clk_delay, tx_dat_delay) : TxProbeWord(reg, word)

\* A TX scan loop that still writes the RX delay register.
TxProbeWritesRxReg == TxProbeReg(REG_RX_CLOCK_DATA_DELAY)

TxProbe == TxProbeReg(REG_TX_CLOCK_DATA_DELAY)

\* A TX selection that starts from the maximum the RX selection left in
\* max_valid_delays, without the assignment max_valid_delays = 0.
TxFindKeepsRxMax ==
    /\ pc = "tx_find"
    /\ LET r == TxFindFrom(tx_valid_delays,
                           [NoOptimal EXCEPT !.max_valid_delays = max_valid_delays], 0) IN
         /\ max_valid_delays' = r.max_valid_delays
         /\ optimal_tx_clk_delay' = r.clk
         /\ optimal_tx_dat_delay' = r.dat
    /\ tx_clk_delay' = NTAPS
    /\ tx_dat_delay' = NTAPS
    /\ pc' = "tx_commit"
    /\ UNCHANGED << exit_status, keep_running, cfg, samplerate, rx_vars,
                    tx_valid_delays, trace >>

\* Find optimal TX Clk/Dat delays: optimal_tx_* = -1, max_valid_delays = 0,
\* then the two loops.
TxFind ==
    /\ pc = "tx_find"
    /\ LET r == TxFindFrom(tx_valid_delays, NoOptimal, 0) IN
         /\ max_valid_delays' = r.max_valid_delays
         /\ optimal_tx_clk_delay' = r.clk
         /\ optimal_tx_dat_delay' = r.dat
    /\ tx_clk_delay' = NTAPS
    /\ tx_dat_delay' = NTAPS
    /\ pc' = "tx_commit"
    /\ UNCHANGED << exit_status, keep_running, cfg, samplerate, rx_vars,
                    tx_valid_delays, trace >>

\* A TX commit that still names the RX delay register.
TxCommitWritesRxReg ==
    Step("tx_commit",
         CommitCalls(REG_RX_CLOCK_DATA_DELAY, optimal_tx_clk_delay, optimal_tx_dat_delay),
         "oversample")

\* Display, then configure the optimal TX delays when they were found.
TxCommit ==
    Step("tx_commit",
         CommitCalls(REG_TX_CLOCK_DATA_DELAY, optimal_tx_clk_delay, optimal_tx_dat_delay),
         "oversample")

\* if (enable_oversample) { the fixed register recipe }
Oversample == Step("oversample", OversampleCalls(cfg), "close")

\* A close that first puts back what the calibration changed: the requested
\* loopback mode and the FPGA TX-PRBS switched off.
CloseRestores ==
    /\ pc = "close"
    /\ pc' = "done"
    /\ exit_status' = 0
    /\ trace' = IF cfg.bist_prbs
                THEN trace \o LoopbackCalls(cfg)
                       \o << Writel("CSR_AD9361_PRBS_TX_ADDR",
                                    0 * (2 ^ CSR_AD9361_PRBS_TX_ENABLE_OFFSET)) >>
                ELSE trace
    /\ UNCHANGED << keep_running, cfg, samplerate, cal_vars >>

\* close(fd); m2sdr_init returns and main returns 0.
Close ==
    /\ pc = "close"
    /\ pc' = "done"
    /\ exit_status' = 0
    /\ UNCHANGED << keep_running, cfg, samplerate, cal_vars, trace >>

\* The steps of m2sdr_init.
BringUp ==
    \/ Open
    \/ Si5351
    \/ SpiInit
    \/ Ad9361Init
    \/ Samplerate
    \/ Bandwidth
    \/ LoFreq
    \/ Fir
    \/ TxAtten
    \/ RxGain
    \/ Loopback
    \/ BitMode
    \/ PhyControl
    \/ BistTxTone
    \/ BistRxTone
    \/ PrbsRxEnable
    \/ RxProbe
    \/ RxFind
    \/ RxCommit
    \/ LoopbackOn
    \/ TxPrbsOn
    \/ TxProbe
    \/ TxFind
    \/ TxCommit
    \/ Oversample
    \/ Close

Next == intHandler \/ BringUp

Spec == Init /\ [][Next]_vars

\* A bring-up that asks for the PRBS calibration alone and in which every
\* call of a probe returns: the scan loops are sequential code, so an
\* iteration that can be taken is taken. Nothing is assumed about when, or
\* whether, intHandler runs.
FairInit == Init /\ cfg.bist_prbs /\ OptionCount(cfg) = 1

\* The same bring-up with nothing assumed about progress.
CalSpec == FairInit /\ [][Next]_vars

FairSpec == FairInit /\ [][Next]_vars /\ WF_vars(RxProbe) /\ WF_vars(TxProbe)

(***************************************************************************)
(* SelSpec: the selection and the commit, applied to a wider family of     *)
(* completed grids than the lock window of Spec produces.  Its initial     *)
(* states are the states of m2sdr_init right after an RX scan loop or      *)
(* right after a TX scan loop whose status reads produced the grid.        *)
(***************************************************************************)

WinCells == (0..1) \X (0..(WinCols - 1))

\* The grid whose true cells are the cells `on` of the window placed at (r0, c0).
WindowGrid(r0, c0, on) ==
    [c \in Taps |-> [d \in Taps |-> IF <<c - r0, d - c0>> \in on THEN 1 ELSE 0]]

WindowGrids ==
    {WindowGrid(a[1], a[2], on) :
        a \in {<<0, 0>>, <<NTAPS - 2, NTAPS - WinCols>>}, on \in SUBSET WinCells}

\* The grid with one run: row r, columns s .. s+l-1.
RunGrid(r, s, l) ==
    [c \in Taps |-> [d \in Taps |-> IF c = r /\ d >= s /\ d < s + l THEN 1 ELSE 0]]

RunGrids == {RunGrid(r, s, l) : r \in {0, 5, 15}, s \in Taps, l \in 1..NTAPS} \ {ZeroGrid}

\* The grid with a run in row 3 and a run in row 9.
TwoRunGrid(s1, l1, s2, l2) ==
    [c \in Taps |-> [d \in Taps |->
        IF \/ c = 3 /\ d >= s1 /\ d < s1 + l1
           \/ c = 9 /\ d >= s2 /\ d < s2 + l2
        THEN 1 ELSE 0]]

TwoRunGrids ==
    {TwoRunGrid(s1, l1, s2, l2) : s1 \in {0, 2}, s2 \in {0, 2}, l1 \in {5, 7}, l2 \in {5, 7}}

\* The grid with a run that ends row 7 and a run that begins row 8.
EdgeGrid(l1, l2) ==
    [c \in Taps |-> [d \in Taps |->
        IF \/ c = 7 /\ d >= NTAPS - l1
           \/ c = 8 /\ d < l2
        THEN 1 ELSE 0]]

EdgeGrids == {EdgeGrid(l1, l2) : l1 \in 1..3, l2 \in 1..3}

FullGrid == [c \in Taps |-> [d \in Taps |-> 1]]

SelGrids == WindowGrids \cup RunGrids \cup TwoRunGrids \cup EdgeGrids \cup {FullGrid}

\* The RX grids that precede a TX scan in SelSpec.
SelRxGrids == {ZeroGrid, TwoRunGrid(2, 5, 0, 5)}

\* The configuration of SelSpec: the PRBS test alone.
SelConfigs ==
    {c \in AllRfConfigs :
        /\ c.bist_prbs /\ c.loopback = 0
        /\ ~c.bist_tx_tone /\ ~c.bist_rx_tone
        /\ ~c.enable_8bit_mode /\ ~c.enable_oversample}

SelInitRx ==
    /\ pc = "rx_find"
    /\ rx_valid_delays \in SelGrids
    /\ tx_valid_delays = ZeroGrid
    /\ rx_clk_delay = NTAPS /\ rx_dat_delay = NTAPS
    /\ tx_clk_delay = 0 /\ tx_dat_delay = 0
    /\ optimal_rx_clk_delay = -1 /\ optimal_rx_dat_delay = -1
    /\ optimal_tx_clk_delay = -1 /\ optimal_tx_dat_delay = -1
    /\ max_valid_delays = 0
    /\ trace = PrefixCalls(cfg, samplerate) \o PrbsRxEnableCalls
                 \o ScanCalls(REG_RX_CLOCK_DATA_DELAY, rx_valid_delays)

SelInitTx ==
    /\ pc = "tx_find"
    /\ rx_valid_delays \in SelRxGrids
    /\ tx_valid_delays \in SelGrids
    /\ rx_clk_delay = NTAPS /\ rx_dat_delay = NTAPS
    /\ tx_clk_delay = NTAPS /\ tx_dat_delay = NTAPS
    /\ LET r == RxFindFrom(rx_valid_delays, NoOptimal, 0) IN
         /\ max_valid_delays = r.max_valid_delays
         /\ optimal_rx_clk_delay = r.clk
         /\ optimal_rx_dat_delay = r.dat
    /\ optimal_tx_clk_delay = -1 /\ optimal_tx_dat_delay = -1
    /\ trace = PrefixCalls(cfg, samplerate) \o PrbsRxEnableCalls
                 \o ScanCalls(REG_RX_CLOCK_DATA_DELAY, rx_valid_delays)
                 \o CommitCalls(REG_RX_CLOCK_DATA_DELAY,
                                optimal_rx_clk_delay, optimal_rx_dat_delay)
                 \o LoopbackOnCalls \o TxPrbsOnCalls
                 \o ScanCalls(REG_TX_CLOCK_DATA_DELAY, tx_valid_delays)

SelInit ==
    /\ exit_status = -1
    /\ keep_running = 1
    /\ cfg \in SelConfigs
    /\ samplerate \in SampleRates
    /\ (SelInitRx \/ SelInitTx)

SelNext == RxFind \/ RxCommit \/ TxFind \/ TxCommit

SelSpec == SelInit /\ [][SelNext]_vars

(***************************************************************************)
(* Bring-up without the PRBS test, over a range of rates and gains         *)
(***************************************************************************)

\* uint32_t samplerate: small values of both parities, the default, an odd
\* large value and the largest value below 2^31.
ParamRates == (0..MaxSmallRate) \cup {30720000, 61440000, 122880001, 2147483647}

\* int64_t tx_gain, in dB.
ParamGains == ((-MaxSmallGain)..MaxSmallGain) \cup {-89, -20, 10, 89}

ParamConfigs ==
    [ bandwidth         : {56000000},
      tx_freq           : {100000000},
      rx_freq           : {100000000},
      tx_gain           : ParamGains,
      rx_gain           : {0},
      loopback          : {0},
      bist_tx_tone      : {FALSE},
      bist_rx_tone      : {FALSE},
      bist_prbs         : {FALSE},
      bist_tone_freq    : {1000000},
      enable_8bit_mode  : {FALSE},
      enable_oversample : BOOLEAN ]

ParamInit ==
    /\ pc = "open"
    /\ exit_status = -1
    /\ keep_running = 1
    /\ cfg \in ParamConfigs
    /\ samplerate \in ParamRates
    /\ InitLocals
    /\ trace = << >>

\* The steps of m2sdr_init when bist_prbs is not set.
ParamNext ==
    \/ Open
    \/ Si5351
    \/ SpiInit
    \/ Ad9361Init
    \/ Samplerate
    \/ Bandwidth
    \/ LoFreq
    \/ Fir
    \/ TxAtten
    \/ RxGain
    \/ Loopback
    \/ BitMode
    \/ PhyControl
    \/ BistTxTone
    \/ BistRxTone
    \/ PrbsRxEnable
    \/ Oversample
    \/ Close

ParamSpec == ParamInit /\ [][ParamNext]_vars

(***************************************************************************)
(* spi_write_then_read: the SPI callback handed to the AD9361 library      *)
(***************************************************************************)

\* Values of an unsigned char of txbuf and of the byte a read returns.
SpiBytes == {0, 1, 128, 255}

\* The arguments of one call: the byte counts and the first three bytes of
\* txbuf (txbuf[2] is looked at by a write only).  Under SpiSpec they are
\* held by cfg, the arguments of the function being run.
SpiCalls ==
    [ n_tx : 0..MaxSpiLen, n_rx : 0..MaxSpiLen, txbuf : [0..2 -> SpiBytes] ]

\* m2sdr_ad9361_spi_read(fd, addr), returning val.
SpiRead(reg, val) == [op |-> "m2sdr_ad9361_spi_read", reg |-> reg, val |-> val]

\* txbuf[0] << 8 | txbuf[1]: the two fields share no bit.
SpiAddr(c) == c.txbuf[0] * 256 + c.txbuf[1]

\* if (n_tx == 2 && n_rx == 1)
SpiIsRead(c) == c.n_tx = 2 /\ c.n_rx = 1

\* A write test that forgets n_rx.
SpiIsWriteAnyRx(c) == c.n_tx = 3

\* else if (n_tx == 3 && n_rx == 0)
SpiIsWrite(c) == c.n_tx = 3 /\ c.n_rx = 0

SpiCallInit ==
    /\ pc = "spi_call"
    /\ exit_status = -1
    /\ keep_running = 1
    /\ cfg \in SpiCalls
    /\ samplerate \in SampleRates
    /\ InitLocals
    /\ trace = << >>

\* The whole function: open (exit(1) when it fails), the transfer the byte
\* counts select (exit(1) when they select none), close, return 0.
spi_write_then_read ==
    /\ pc = "spi_call"
    /\ \E ok \in BOOLEAN : \E byte \in SpiBytes :
          IF ~ok
          THEN /\ pc' = "exit" /\ exit_status' = 1 /\ trace' = trace
          ELSE IF SpiIsRead(cfg)
          THEN /\ trace' = trace \o << SpiRead(SpiAddr(cfg), byte) >>
               /\ pc' = "spi_return" /\ exit_status' = exit_status
          ELSE IF SpiIsWrite(cfg)
          THEN /\ trace' = trace \o << SpiWrite(SpiAddr(cfg), cfg.txbuf[2]) >>
               /\ pc' = "spi_return" /\ exit_status' = exit_status
          ELSE /\ pc' = "exit" /\ exit_status' = 1 /\ trace' = trace
    /\ UNCHANGED << keep_running, cfg, samplerate, cal_vars >>

SpiNext == spi_write_then_read

SpiSpec == SpiCallInit /\ [][SpiNext]_vars

(***************************************************************************)
(* Properties                                                              *)
(***************************************************************************)

HasTrue(grid) == \E c \in Taps : \E d \in Taps : grid[c][d] = 1

\* Positions of m2sdr_init at which the RX (TX) selection has been made.
RxSelected ==
    pc \in {"rx_commit", "loopback_on", "tx_prbs_on", "tx_scan", "tx_settle",
            "tx_read", "tx_find", "tx_commit", "oversample", "close", "done"}

TxSelected == pc \in {"tx_commit", "oversample", "close", "done"}

\* The ValidRuns of a grid, <<row, start column, length>>: the maximal
\* contiguous runs of true cells along the data-delay axis of one row.
IsRun(grid, r, s, l) ==
    /\ \A d \in s..(s + l - 1) : grid[r][d] = 1
    /\ (s = 0 \/ grid[r][s - 1] = 0)
    /\ (s + l = NTAPS \/ grid[r][s + l] = 0)

RunStarts(grid) ==
    {c \in Taps \X Taps : grid[c[1]][c[2]] = 1 /\ (c[2] = 0 \/ grid[c[1]][c[2] - 1] = 0)}

ValidRuns(grid) ==
    UNION {{<<c[1], c[2], l>> : l \in {k \in 1..(NTAPS - c[2]) : IsRun(grid, c[1], c[2], k)}} :
              c \in RunStarts(grid)}

\* The ValidRuns that hold the cell (clk, dat).
RunsAt(grid, clk, dat) ==
    {run \in ValidRuns(grid) : run[1] = clk /\ run[2] <= dat /\ dat < run[2] + run[3]}

\* C1: for either direction, when the completed grid has a true cell, the
\* selected clock and data delays both lie in 0..15 and the cell they index
\* is true.
C1_OptimalCellIsTrue ==
    /\ (RxSelected /\ HasTrue(rx_valid_delays)) =>
          /\ optimal_rx_clk_delay \in 0..15
          /\ optimal_rx_dat_delay \in 0..15
          /\ rx_valid_delays[optimal_rx_clk_delay][optimal_rx_dat_delay] = 1
    /\ (TxSelected /\ HasTrue(tx_valid_delays)) =>
          /\ optimal_tx_clk_delay \in 0..15
          /\ optimal_tx_dat_delay \in 0..15
          /\ tx_valid_delays[optimal_tx_clk_delay][optimal_tx_dat_delay] = 1

\* A TX selection was made on a grid whose last cell is true and ends a run.
C1_Witness ==
    /\ pc = "tx_commit"
    /\ tx_valid_delays[15][15] = 1
    /\ tx_valid_delays[15][14] = 1
    /\ optimal_tx_clk_delay = 15

\* No ValidRun of the grid is longer than a ValidRun of row clk holding dat.
InLongestRun(grid, clk, dat) ==
    \E sel \in RunsAt(grid, clk, dat) :
        \A run \in ValidRuns(grid) : run[3] <= sel[3]

\* C3: when the grid has a true cell, the selected cell lies in a ValidRun of
\* globally maximal length: no ValidRun of any row is longer than the run of
\* the selected row that holds the selected data delay (runs are taken row by
\* row and never extend across a row boundary).
C3_LongestRunSelected ==
    /\ (RxSelected /\ HasTrue(rx_valid_delays)) =>
          InLongestRun(rx_valid_delays, optimal_rx_clk_delay, optimal_rx_dat_delay)
    /\ (TxSelected /\ HasTrue(tx_valid_delays)) =>
          InLongestRun(tx_valid_delays, optimal_tx_clk_delay, optimal_tx_dat_delay)

\* The RX selection was made on a grid whose first run (row 3, length 5) is
\* shorter than a later one (row 9, length 7).
C3_Witness ==
    /\ pc = "rx_commit"
    /\ rx_valid_delays = TwoRunGrid(0, 5, 2, 7)
    /\ optimal_rx_clk_delay = 9

\* Every ValidRun at least as long as the one of row clk holding dat comes
\* after it in row-major order of (row, start column).
InFirstLongestRun(grid, clk, dat) ==
    \E sel \in RunsAt(grid, clk, dat) :
        \A run \in ValidRuns(grid) :
            run[3] >= sel[3] =>
                \/ sel[1] < run[1]
                \/ (sel[1] = run[1] /\ sel[2] <= run[2])

\* C4: when several ValidRuns share the maximal length, the selected one is
\* the first of them in row-major ascending order of (row, start column); a
\* later run of equal length never replaces an earlier one.
C4_FirstLongestRunWins ==
    /\ (RxSelected /\ HasTrue(rx_valid_delays)) =>
          InFirstLongestRun(rx_valid_delays, optimal_rx_clk_delay, optimal_rx_dat_delay)
    /\ (TxSelected /\ HasTrue(tx_valid_delays)) =>
          InFirstLongestRun(tx_valid_delays, optimal_tx_clk_delay, optimal_tx_dat_delay)

\* The documented tie: row 3 columns 2-6 and row 9 columns 0-4; row 3 wins.
C4_Witness ==
    /\ pc = "rx_commit"
    /\ rx_valid_delays = TwoRunGrid(2, 5, 0, 5)
    /\ optimal_rx_clk_delay = 3
    /\ optimal_rx_dat_delay = 4

\* dat is S + L/2 for the ValidRun <<clk, S, L>> that holds it.
IsCentre(grid, clk, dat) ==
    \E sel \in RunsAt(grid, clk, dat) : dat = sel[2] + sel[3] \div 2

\* C5: centering law: the selected data delay is S + L/2 (integer division),
\* S and L being the first column and the length of the whole ValidRun of
\* the selected row that holds it.
C5_CenteringLaw ==
    /\ (RxSelected /\ HasTrue(rx_valid_delays)) =>
          IsCentre(rx_valid_delays, optimal_rx_clk_delay, optimal_rx_dat_delay)
    /\ (TxSelected /\ HasTrue(tx_valid_delays)) =>
          IsCentre(tx_valid_delays, optimal_tx_clk_delay, optimal_tx_dat_delay)

\* The documented scenario: row 5 true at columns 3-9 gives (5, 6).
C5_Witness ==
    /\ pc = "rx_commit"
    /\ rx_valid_delays = RunGrid(5, 3, 7)
    /\ optimal_rx_clk_delay = 5
    /\ optimal_rx_dat_delay = 6

(***************************************************************************)
(* Properties of the hardware calls of a run                               *)
(***************************************************************************)

\* trace[i] is a write to the transceiver register `reg`.
IsWrite(i, reg) ==
    /\ trace[i].op = "m2sdr_ad9361_spi_write"
    /\ trace[i].reg = reg

WritesTo(reg) == {i \in 1..Len(trace) : IsWrite(i, reg)}

\* The position of the last write to `reg` (there is one).
LastWrite(reg) ==
    CHOOSE i \in 1..Len(trace) :
        /\ IsWrite(i, reg)
        /\ \A j \in (i + 1)..Len(trace) : ~IsWrite(j, reg)

\* The value a probe or a commit of (clk, dat) puts in a delay register.
DelayWord(clk, dat) == DATA_CLK_DELAY(clk) + RX_DATA_DELAY(dat)

\* The steps after the RX commit and after the TX commit at which the
\* registers are inspected.
AfterRxCommit == cfg.bist_prbs /\ pc \in {"loopback_on", "oversample", "close", "done"}
AfterTxCommit == cfg.bist_prbs /\ pc \in {"oversample", "close", "done"}

\* Not found: the 256 probe writes are the only writes to `reg`, and the last
\* of them, that of cell (15, 15), is still followed by its settle and read.
OnlyProbesWritten(clk, dat, reg) ==
    /\ clk = -1
    /\ dat = -1
    /\ Cardinality(WritesTo(reg)) = NTAPS * NTAPS
    /\ LET w == LastWrite(reg) IN
         /\ trace[w].val = DelayWord(NTAPS - 1, NTAPS - 1)
         /\ trace[w + 1].op = "mdelay"
         /\ trace[w + 2].op = "litepcie_readl"

\* C2: for either direction, when every cell of the completed SyncGrid is
\* false the selection is "not found" (-1, -1) and no delay-register write
\* follows the scan: the register was written 256 times, by the probes only,
\* and the last value written is that of the final probe (15, 15).
C2_NotFoundNoWrite ==
    /\ (AfterRxCommit /\ ~HasTrue(rx_valid_delays)) =>
          /\ OnlyProbesWritten(optimal_rx_clk_delay, optimal_rx_dat_delay,
                               REG_RX_CLOCK_DATA_DELAY)
          /\ pc = "loopback_on" => trace[Len(trace)].op = "litepcie_readl"
    /\ (AfterTxCommit /\ ~HasTrue(tx_valid_delays)) =>
          /\ OnlyProbesWritten(optimal_tx_clk_delay, optimal_tx_dat_delay,
                               REG_TX_CLOCK_DATA_DELAY)
          /\ pc = "oversample" => trace[Len(trace)].op = "litepcie_readl"

\* A calibration ended with no lock in either direction.
C2_Witness ==
    /\ pc = "done"
    /\ cfg.bist_prbs
    /\ rx_valid_delays = ZeroGrid
    /\ tx_valid_delays = ZeroGrid
    /\ Cardinality(WritesTo(REG_TX_CLOCK_DATA_DELAY)) = NTAPS * NTAPS

\* Found: the write that follows the scan's last read puts (clk, dat) in `reg`
\* and is the last of the 257 writes to `reg`.
CommitIsLastWrite(clk, dat, reg) ==
    /\ clk \in Taps
    /\ dat \in Taps
    /\ Cardinality(WritesTo(reg)) = NTAPS * NTAPS + 1
    /\ LET w == LastWrite(reg) IN
         /\ trace[w].val = DelayWord(clk, dat)
         /\ trace[w - 1].op = "litepcie_readl"
         /\ trace[w - 3].val = DelayWord(NTAPS - 1, NTAPS - 1)

\* C6: for either direction, whenever the completed SyncGrid has a true cell
\* (a single isolated one included) the selected pair is written to the
\* direction's delay register right after the scan's last probe, before the
\* next step makes any call, and it is the last write to that register.
C6_CommitRightAfterScan ==
    /\ (AfterRxCommit /\ HasTrue(rx_valid_delays)) =>
          /\ CommitIsLastWrite(optimal_rx_clk_delay, optimal_rx_dat_delay,
                               REG_RX_CLOCK_DATA_DELAY)
          /\ pc = "loopback_on" => LastWrite(REG_RX_CLOCK_DATA_DELAY) = Len(trace)
          /\ pc # "loopback_on" =>
                trace[LastWrite(REG_RX_CLOCK_DATA_DELAY) + 1].op = "ad9361_bist_loopback"
    /\ (AfterTxCommit /\ HasTrue(tx_valid_delays)) =>
          /\ CommitIsLastWrite(optimal_tx_clk_delay, optimal_tx_dat_delay,
                               REG_TX_CLOCK_DATA_DELAY)
          /\ pc = "oversample" => LastWrite(REG_TX_CLOCK_DATA_DELAY) = Len(trace)

\* A run whose RX grid holds one isolated true cell, accepted and committed.
C6_Witness ==
    /\ pc = "done"
    /\ cfg.bist_prbs
    /\ rx_valid_delays = [ZeroGrid EXCEPT ![15][13] = 1]
    /\ optimal_rx_clk_delay = 15
    /\ optimal_rx_dat_delay = 13
    /\ trace[LastWrite(REG_RX_CLOCK_DATA_DELAY)].val = DelayWord(15, 13)

\* The position of the call that enables the transceiver's RX PRBS injection.
PrbsInjectAt == CHOOSE i \in 1..Len(trace) : trace[i].op = "ad9361_bist_prbs"

\* trace[from + 1 ..] holds the 256 probes of a scan of `reg`, in tap order:
\* write the tap pair, settle, read the checker status.
IsScan(from, reg) ==
    \A k \in 0..(NTAPS * NTAPS - 1) :
        /\ IsWrite(from + 3 * k + 1, reg)
        /\ trace[from + 3 * k + 1].val = DelayWord(k \div NTAPS, k % NTAPS)
        /\ trace[from + 3 * k + 2].op = "mdelay"
        /\ trace[from + 3 * k + 3].op = "litepcie_readl"

\* The number of calls a commit makes after a scan of `grid`.
CommitLen(grid) == IF HasTrue(grid) THEN 1 ELSE 0

\* trace[i] switches the FPGA TX-side PRBS generator to `val`.
IsTxPrbsWrite(i, val) ==
    /\ trace[i].op = "litepcie_writel"
    /\ trace[i].csr = "CSR_AD9361_PRBS_TX_ADDR"
    /\ trace[i].val = val

\* C7: in every PRBS calibration run the calls come in this order and no
\* other: FPGA TX-PRBS disabled, transceiver RX PRBS injection enabled, RX
\* scan of 256 probes, RX commit, RX->TX loopback enabled, FPGA TX-PRBS
\* enabled, TX scan of 256 probes, TX commit. No RX probe precedes the RX
\* PRBS injection and no write to the TX delay register precedes the
\* loopback and the FPGA TX-PRBS enabling.
C7_CalibrationOrder ==
    AfterTxCommit =>
        LET p      == PrbsInjectAt
            rxEnd  == p + 3 * NTAPS * NTAPS + CommitLen(rx_valid_delays)
            txFrom == rxEnd + 2
            txEnd  == txFrom + 3 * NTAPS * NTAPS + CommitLen(tx_valid_delays)
        IN  /\ IsTxPrbsWrite(p - 1, 0)
            /\ trace[p].mode = "BIST_INJ_RX"
            /\ IsScan(p, REG_RX_CLOCK_DATA_DELAY)
            /\ HasTrue(rx_valid_delays) => IsWrite(rxEnd, REG_RX_CLOCK_DATA_DELAY)
            /\ trace[rxEnd + 1] = [op |-> "ad9361_bist_loopback", arg |-> 1]
            /\ IsTxPrbsWrite(txFrom, 1)
            /\ IsScan(txFrom, REG_TX_CLOCK_DATA_DELAY)
            /\ HasTrue(tx_valid_delays) => IsWrite(txEnd, REG_TX_CLOCK_DATA_DELAY)
            /\ pc = "oversample" => Len(trace) = txEnd
            /\ \A i \in 1..(p - 2) :
                  /\ trace[i].op \notin {"ad9361_bist_prbs", "mdelay", "litepcie_readl",
                                         "m2sdr_ad9361_spi_write"}
                  /\ trace[i].op = "litepcie_writel" =>
                        trace[i].csr # "CSR_AD9361_PRBS_TX_ADDR"
            /\ \A i \in (txEnd + 1)..Len(trace) :
                  /\ trace[i].op = "m2sdr_ad9361_spi_write"
                  /\ trace[i].reg \notin {REG_RX_CLOCK_DATA_DELAY, REG_TX_CLOCK_DATA_DELAY}
            /\ \A i \in WritesTo(REG_RX_CLOCK_DATA_DELAY) : p < i /\ i <= rxEnd
            /\ \A i \in WritesTo(REG_TX_CLOCK_DATA_DELAY) : txFrom < i /\ i <= txEnd

\* A calibration whose RX direction locked and committed and whose TX
\* direction did not; both scans and the enabling calls are in the trace.
C7_Witness ==
    /\ pc = "done"
    /\ cfg.bist_prbs
    /\ HasTrue(rx_valid_delays)
    /\ ~HasTrue(tx_valid_delays)
    /\ Cardinality(WritesTo(REG_RX_CLOCK_DATA_DELAY)) = NTAPS * NTAPS + 1
    /\ Cardinality(WritesTo(REG_TX_CLOCK_DATA_DELAY)) = NTAPS * NTAPS

\* The bring-up step a call belongs to, as its rank in the documented order:
\* 1 clock generator, 2 SPI init, 3 transceiver init, 4 sample rate,
\* 5 bandwidth, 6 LO frequency, 7 FIR, 8 TX attenuation, 9 RX gain,
\* 10 loopback mode, 11 bit-mode register, 12 antenna-mode register,
\* 13 BIST tones, 14 PRBS calibration, 15 oversampling overrides.
\* The loopback call made after the RX PRBS injection was enabled is part of
\* the calibration; writes to the two delay registers are calibration calls,
\* writes to any other transceiver register are oversampling overrides.
StepRank(i) ==
    LET e == trace[i] IN
    CASE e.op = "m2sdr_si5351_i2c_config" -> 1
      [] e.op = "m2sdr_ad9361_spi_init" -> 2
      [] e.op = "ad9361_init" -> 3
      [] e.op \in {"ad9361_set_tx_sampling_freq", "ad9361_set_rx_sampling_freq"} -> 4
      [] e.op \in {"ad9361_set_rx_rf_bandwidth", "ad9361_set_tx_rf_bandwidth"} -> 5
      [] e.op \in {"ad9361_set_tx_lo_freq", "ad9361_set_rx_lo_freq"} -> 6
      [] e.op \in {"ad9361_set_tx_fir_config", "ad9361_set_rx_fir_config"} -> 7
      [] e.op = "ad9361_set_tx_atten" -> 8
      [] e.op = "ad9361_set_rx_rf_gain" -> 9
      [] e.op = "ad9361_bist_loopback" ->
            IF \E j \in 1..(i - 1) : trace[j].op = "ad9361_bist_prbs" THEN 14 ELSE 10
      [] e.op = "litepcie_writel" ->
            (CASE e.csr = "CSR_AD9361_BITMODE_ADDR" -> 11
               [] e.csr = "CSR_AD9361_PHY_CONTROL_ADDR" -> 12
               [] OTHER -> 14)
      [] e.op = "ad9361_bist_tone" -> 13
      [] e.op \in {"ad9361_bist_prbs", "mdelay", "litepcie_readl"} -> 14
      [] e.op = "m2sdr_ad9361_spi_write" ->
            IF e.reg \in {REG_RX_CLOCK_DATA_DELAY, REG_TX_CLOCK_DATA_DELAY}
            THEN 14 ELSE 15

\* The ranks of the steps that made a call in the run.
StepsRun == {StepRank(i) : i \in 1..Len(trace)}

\* The ranks of the steps cfg asks for.
StepsAsked ==
    (1..12)
      \cup (IF cfg.bist_tx_tone \/ cfg.bist_rx_tone THEN {13} ELSE {})
      \cup (IF cfg.bist_prbs THEN {14} ELSE {})
      \cup (IF cfg.enable_oversample THEN {15} ELSE {})

\* C8: bring-up performs its steps in one fixed order for every RfConfig:
\* clock generator, SPI init, transceiver init, sample rate, bandwidth, LO
\* frequency, FIR, TX attenuation, RX gain, loopback mode, bit-mode register,
\* antenna-mode register, optional BIST tones, optional PRBS calibration,
\* optional oversampling overrides: each step asked for runs, no other does,
\* and no call of a step precedes a call of an earlier step (so the PRBS
\* calibration follows the bit-mode and antenna-mode writes and precedes every
\* oversampling override write).
C8_BringUpOrder ==
    pc = "done" =>
        /\ StepsRun = StepsAsked
        /\ \A i \in 1..(Len(trace) - 1) : StepRank(i) <= StepRank(i + 1)
        /\ cfg.bist_tx_tone /\ cfg.bist_rx_tone =>
              \E i \in 1..(Len(trace) - 1) :
                  /\ trace[i].op = "ad9361_bist_tone" /\ trace[i].mode = "BIST_INJ_TX"
                  /\ trace[i + 1].op = "ad9361_bist_tone" /\ trace[i + 1].mode = "BIST_INJ_RX"

\* A completed bring-up that ran the PRBS calibration and then the
\* oversampling overrides.
C8_Witness ==
    /\ pc = "done"
    /\ cfg.bist_prbs
    /\ cfg.enable_oversample
    /\ {11, 12, 14, 15} \subseteq StepsRun
    /\ trace[Len(trace)] = SpiWrite(1014, 3)

\* The points between two top-level steps of m2sdr_init: before the clock
\* generator step, ..., before the PRBS calibration, before the oversampling
\* overrides.
TopLevelBoundaries ==
    {"si5351", "spi_init", "ad9361_init", "samplerate", "bandwidth", "lo_freq",
     "fir", "tx_atten", "rx_gain", "loopback", "bitmode", "phy_control",
     "bist_tx_tone", "bist_rx_tone", "bist_prbs", "oversample"}

\* C9: the handler sets the stop flag and the flag is checked between the
\* top-level bring-up steps: a stop request raised during bring-up is
\* observed at a boundary between top-level steps, so that from a boundary
\* reached with the flag set the sequencer makes no further hardware call.
C9_StopObservedAtBoundary ==
    [][(keep_running = 0 /\ pc \in TopLevelBoundaries) => trace' = trace]_vars

\* m2sdr_init is inside a probe of the RX (TX) scan loop, or about to start one.
RxScanning == pc \in {"rx_scan", "rx_settle", "rx_read"}
TxScanning == pc \in {"tx_scan", "tx_settle", "tx_read"}

\* All 256 cells of the RX scan were probed and the selection is next.
RxScanComplete ==
    /\ pc = "rx_find"
    /\ Cardinality(WritesTo(REG_RX_CLOCK_DATA_DELAY)) = NTAPS * NTAPS
    /\ trace[Len(trace)].op = "litepcie_readl"

\* All 256 cells of the TX scan were probed and the selection is next.
TxScanComplete ==
    /\ pc = "tx_find"
    /\ Cardinality(WritesTo(REG_TX_CLOCK_DATA_DELAY)) = NTAPS * NTAPS
    /\ trace[Len(trace)].op = "litepcie_readl"

\* C10: no cancellation mid-scan: once a direction's scan has probed its
\* first cell it probes all 256 cells and reaches the selection, however the
\* handler's setting of the stop flag interleaves with the probes and
\* whatever the status reads return, provided every call returns.
C10_ScanRunsToSelection ==
    /\ (RxScanning /\ rx_clk_delay + rx_dat_delay > 0) ~> RxScanComplete
    /\ (TxScanning /\ tx_clk_delay + tx_dat_delay > 0) ~> TxScanComplete

\* A stop was requested before or during the TX scan, which goes on: 255
\* cells are probed, the delays of the last one are written and settled and
\* its status is about to be read.
C10_Witness ==
    /\ pc = "tx_read"
    /\ keep_running = 0
    /\ tx_clk_delay = NTAPS - 1
    /\ tx_dat_delay = NTAPS - 1
    /\ Cardinality(WritesTo(REG_TX_CLOCK_DATA_DELAY)) = NTAPS * NTAPS

\* The number of calls of a whole scan: three per cell.
ScanLen == 3 * NTAPS * NTAPS

\* The cells of `grid` are bit 0 of the 256 status reads that end the trace,
\* cell (clk, dat) being that of read number NTAPS * clk + dat.
GridIsReads(grid) ==
    \A k \in 0..(NTAPS * NTAPS - 1) :
        /\ grid[k \div NTAPS][k % NTAPS] \in {0, 1}
        /\ grid[k \div NTAPS][k % NTAPS] = trace[Len(trace) - ScanLen + 3 * k + 3].val % 2

\* One step of a direction, `scan`, `settle` and `read` being the positions
\* before the three calls of a probe and `find` the selection: the grid
\* changes at the cell (clk, dat) only, at the status read only, and to 0 or
\* 1; a probe writes the pair (clk, dat), waits, reads, and moves to the next
\* cell in row-major order; the scan starts at (0, 0) on a zero grid and ends
\* after cell (15, 15).
ScanStep(scan, settle, read, find, reg, grid, gridN, clk, dat, clkN, datN) ==
    /\ gridN # grid =>
          /\ pc = read
          /\ gridN = [grid EXCEPT ![clk][dat] = gridN[clk][dat]]
          /\ grid[clk][dat] = 0
          /\ gridN[clk][dat] \in {0, 1}
    /\ (pc \in {scan, settle, read} /\ trace' # trace) =>
          /\ Len(trace') = Len(trace) + 1
          /\ SubSeq(trace', 1, Len(trace)) = trace
    /\ (pc = scan /\ trace' # trace) =>
          /\ trace'[Len(trace')] = SpiWrite(reg, DelayWord(clk, dat))
          /\ pc' = settle /\ clkN = clk /\ datN = dat
    /\ (pc = settle /\ trace' # trace) =>
          /\ trace[Len(trace)] = SpiWrite(reg, DelayWord(clk, dat))
          /\ trace'[Len(trace')] = Mdelay(SETTLE_MS)
          /\ pc' = read /\ clkN = clk /\ datN = dat
    /\ (pc = read /\ trace' # trace) =>
          /\ trace[Len(trace) - 1] = SpiWrite(reg, DelayWord(clk, dat))
          /\ trace[Len(trace)] = Mdelay(SETTLE_MS)
          /\ trace'[Len(trace')].op = "litepcie_readl"
          /\ gridN[clk][dat] = trace'[Len(trace')].val % 2
          /\ IF dat < NTAPS - 1 THEN pc' = scan /\ clkN = clk /\ datN = dat + 1
             ELSE IF clk < NTAPS - 1 THEN pc' = scan /\ clkN = clk + 1 /\ datN = 0
             ELSE pc' = find
    /\ (pc \in {scan, settle, read} /\ trace' = trace) =>
          (pc' = pc /\ clkN = clk /\ datN = dat)
    /\ (pc \notin {scan, settle, read} /\ pc' \in {scan, settle, read}) =>
          (pc' = scan /\ clkN = 0 /\ datN = 0 /\ gridN = ZeroGrid)
    /\ pc = find =>
          /\ gridN = grid
          /\ IsScan(Len(trace) - ScanLen, reg)
          /\ GridIsReads(grid)

\* C11: during one scan every one of the 256 cells is probed exactly once, in
\* row-major order (clock delay ascending, data delay ascending within a
\* row); each grid cell is written exactly once, with 0 or 1, and the grid is
\* not modified during selection.
C11_ScanVisitsEachCellOnce ==
    [][/\ ScanStep("rx_scan", "rx_settle", "rx_read", "rx_find",
                   REG_RX_CLOCK_DATA_DELAY,
                   rx_valid_delays, rx_valid_delays',
                   rx_clk_delay, rx_dat_delay, rx_clk_delay', rx_dat_delay')
       /\ ScanStep("tx_scan", "tx_settle", "tx_read", "tx_find",
                   REG_TX_CLOCK_DATA_DELAY,
                   tx_valid_delays, tx_valid_delays',
                   tx_clk_delay, tx_dat_delay, tx_clk_delay', tx_dat_delay')]_vars

\* The TX selection has run on a grid the scan filled: the cell whose status
\* read 1 is set, the 256 probes are in the trace and the grid is unchanged.
C11_Witness ==
    /\ pc = "tx_commit"
    /\ tx_valid_delays = [ZeroGrid EXCEPT ![15][13] = 1]
    /\ Cardinality(WritesTo(REG_TX_CLOCK_DATA_DELAY)) = NTAPS * NTAPS
    /\ optimal_tx_clk_delay = 15

\* The trace ends with the calls `evs`.
EndsWith(evs) ==
    /\ Len(trace) >= Len(evs)
    /\ SubSeq(trace, Len(trace) - Len(evs) + 1, Len(trace)) = evs

\* C12: calibration non-convergence is not fatal. The process never ends with
\* a non-zero status once the calibration has begun; when the RX scan finds
\* no valid setting the loopback and the FPGA TX-PRBS are still enabled and
\* the TX scan still runs (256 probes) and commits what it found; when either
\* direction finds nothing bring-up still goes on to the oversampling
\* overrides, when requested, and ends with status 0.
C12_NonConvergenceNotFatal ==
    /\ (pc = "exit" \/ exit_status > 0) =>
          \A i \in 1..Len(trace) : trace[i].op # "ad9361_bist_prbs"
    /\ (AfterTxCommit /\ ~HasTrue(rx_valid_delays)) =>
          LET p == PrbsInjectAt IN
             /\ trace[p + ScanLen + 1] = [op |-> "ad9361_bist_loopback", arg |-> 1]
             /\ IsTxPrbsWrite(p + ScanLen + 2, 1)
             /\ IsScan(p + ScanLen + 2, REG_TX_CLOCK_DATA_DELAY)
             /\ Cardinality(WritesTo(REG_TX_CLOCK_DATA_DELAY))
                   = NTAPS * NTAPS + CommitLen(tx_valid_delays)
    /\ (pc = "done" /\ cfg.bist_prbs
          /\ (~HasTrue(rx_valid_delays) \/ ~HasTrue(tx_valid_delays))) =>
          /\ exit_status = 0
          /\ cfg.enable_oversample => EndsWith(OversampleEvents)

\* RX found nothing; the TX scan ran, found a setting and committed it, the
\* oversampling overrides followed and bring-up ended with status 0.
C12_Witness ==
    /\ pc = "done"
    /\ exit_status = 0
    /\ cfg.bist_prbs
    /\ cfg.enable_oversample
    /\ rx_valid_delays = ZeroGrid
    /\ HasTrue(tx_valid_delays)
    /\ Cardinality(WritesTo(REG_TX_CLOCK_DATA_DELAY)) = NTAPS * NTAPS + 1
    /\ EndsWith(OversampleEvents)

\* C13: if the device cannot be opened at the start of bring-up the process
\* terminates at once with a non-zero status, no hardware operation of any
\* bring-up step is performed and the open is not retried: a non-zero status
\* is found only in the terminated process, with an empty call trace and no
\* further step to take.
C13_OpenFailureIsFatal ==
    (pc = "exit" \/ exit_status > 0) =>
        /\ pc = "exit"
        /\ exit_status = 1
        /\ trace = << >>
        /\ ~ENABLED Next

\* The open of m2sdr_init failed.
C13_Witness ==
    /\ pc = "exit"
    /\ exit_status = 1
    /\ Len(trace) = 0

\* C14: a transfer is a read exactly when (n_tx, n_rx) = (2, 1) and a write
\* exactly when (n_tx, n_rx) = (3, 0), at address txbuf[0] * 256 + txbuf[1]
\* (a write sends txbuf[2]); a call that returns made exactly that one
\* transfer; for every other pair of byte counts no read or write is made
\* and the process terminates with a non-zero status.
C14_SpiTransferShapes ==
    /\ \A i \in 1..Len(trace) :
          /\ trace[i].reg = cfg.txbuf[0] * 256 + cfg.txbuf[1]
          /\ trace[i].op = "m2sdr_ad9361_spi_read" <=> (cfg.n_tx = 2 /\ cfg.n_rx = 1)
          /\ trace[i].op = "m2sdr_ad9361_spi_write" <=> (cfg.n_tx = 3 /\ cfg.n_rx = 0)
          /\ trace[i].op = "m2sdr_ad9361_spi_write" => trace[i].val = cfg.txbuf[2]
    /\ pc = "spi_return" => (Len(trace) = 1 /\ exit_status = -1)
    /\ pc = "exit" => (Len(trace) = 0 /\ exit_status = 1)
    /\ (pc # "spi_call" /\ << cfg.n_tx, cfg.n_rx >> \notin {<< 2, 1 >>, << 3, 0 >>}) =>
          pc = "exit"

\* A (3, 1) call, which is neither shape, ended the process with no transfer.
C14_Witness ==
    /\ pc = "exit"
    /\ cfg.n_tx = 3
    /\ cfg.n_rx = 1
    /\ exit_status = 1
    /\ Len(trace) = 0

\* C15: oversample halving: for every requested sample rate R the rate
\* handed to the transceiver is R / 2 (integer division: the largest X with
\* 2 * X <= R) when oversampling is enabled and R itself when it is not; the
\* TX and the RX call get the same value.
C15_OversampleHalving ==
    [][pc = "samplerate" =>
         LET R == samplerate
             n == Len(trace)
         IN  /\ Len(trace') = n + 2
             /\ trace'[n + 1].op = "ad9361_set_tx_sampling_freq"
             /\ trace'[n + 2].op = "ad9361_set_rx_sampling_freq"
             /\ trace'[n + 1].arg = trace'[n + 2].arg
             /\ IF cfg.enable_oversample
                THEN /\ 2 * trace'[n + 1].arg <= R
                     /\ R - 2 * trace'[n + 1].arg < 2
                ELSE trace'[n + 1].arg = R]_vars

\* The odd rate 122880001 was requested with oversampling: both calls were
\* made with 61440000.
C15_Witness ==
    /\ pc = "bandwidth"
    /\ cfg.enable_oversample
    /\ trace[Len(trace) - 1] = CallArg("ad9361_set_tx_sampling_freq", 61440000)
    /\ trace[Len(trace)] = CallArg("ad9361_set_rx_sampling_freq", 61440000)
    /\ samplerate = 61440000

\* The TX attenuation step has run.
PastTxAtten ==
    pc \notin {"open", "exit", "si5351", "spi_init", "ad9361_init", "samplerate",
               "bandwidth", "lo_freq", "fir", "tx_atten"}

\* The positions of the calls that program the TX attenuation.
TxAttenAt == {i \in 1..Len(trace) : trace[i].op = "ad9361_set_tx_atten"}

\* C16: attenuation sign law: for every requested TX gain of G dB the
\* attenuation handed to the transceiver is -G * 1000 milli-dB (G = 10 gives
\* -10000); it is programmed once, by the TX attenuation step.
C16_AttenuationSignLaw ==
    /\ \A i \in TxAttenAt : trace[i].arg + cfg.tx_gain * 1000 = 0
    /\ Cardinality(TxAttenAt) = IF PastTxAtten THEN 1 ELSE 0

\* The documented example: G = 10 programs -10000.
C16_Witness ==
    /\ pc = "rx_gain"
    /\ cfg.tx_gain = 10
    /\ trace[Len(trace)].op = "ad9361_set_tx_atten"
    /\ trace[Len(trace)].arg = -10000

\* trace[i] is a call of the PRBS calibration: a write to a clock/data delay
\* register, a write to the FPGA PRBS-TX control register, the PRBS
\* injection or a read of the PRBS synchronization status.
IsCalibrationCall(i) ==
    \/ IsWrite(i, REG_RX_CLOCK_DATA_DELAY)
    \/ IsWrite(i, REG_TX_CLOCK_DATA_DELAY)
    \/ (trace[i].op = "litepcie_writel" /\ trace[i].csr = "CSR_AD9361_PRBS_TX_ADDR")
    \/ trace[i].op = "ad9361_bist_prbs"
    \/ trace[i].op = "litepcie_readl"

\* C17: the calibration is invoked only when the PRBS BIST flag is requested:
\* in a bring-up without the flag no write to the RX or TX clock/data delay
\* register, no write to the FPGA PRBS-TX control register, no PRBS injection
\* and no read of the PRBS synchronization status occurs, and no step of the
\* calibration is ever the next one to run.
C17_CalibrationOnlyWhenRequested ==
    ~cfg.bist_prbs =>
        /\ \A i \in 1..Len(trace) : ~IsCalibrationCall(i)
        /\ pc \notin {"rx_scan", "rx_settle", "rx_read", "rx_find", "rx_commit",
                      "loopback_on", "tx_prbs_on",
                      "tx_scan", "tx_settle", "tx_read", "tx_find", "tx_commit"}

\* A bring-up without the PRBS flag ended after the oversampling overrides,
\* which write transceiver registers other than the delay registers.
C17_Witness ==
    /\ pc = "done"
    /\ ~cfg.bist_prbs
    /\ cfg.enable_oversample
    /\ cfg.enable_8bit_mode
    /\ trace[Len(trace)].op = "m2sdr_ad9361_spi_write"

\* The positions of the writes to transceiver registers other than the two
\* clock/data delay registers.
OverrideAt ==
    {i \in 1..Len(trace) :
        /\ trace[i].op = "m2sdr_ad9361_spi_write"
        /\ trace[i].reg \notin {REG_RX_CLOCK_DATA_DELAY, REG_TX_CLOCK_DATA_DELAY}}

\* The number of writes of the oversampling recipe.
RecipeLen == Len(OversampleWrites)

\* C18: the oversampling register overrides are applied exactly when
\* oversampling is requested, as the last calls of bring-up, and they are the
\* same fixed sequence of (address, value) writes for every RfConfig and
\* every calibration outcome; when oversampling is not requested no such
\* write occurs, and none has occurred when the last step is about to run.
C18_OversampleOverrides ==
    /\ pc = "oversample" => OverrideAt = {}
    /\ (pc \in {"close", "done"} /\ ~cfg.enable_oversample) => OverrideAt = {}
    /\ (pc \in {"close", "done"} /\ cfg.enable_oversample) =>
          /\ OverrideAt = (Len(trace) - RecipeLen + 1)..Len(trace)
          /\ \A k \in 1..RecipeLen :
                /\ trace[Len(trace) - RecipeLen + k].reg = OversampleWrites[k][1]
                /\ trace[Len(trace) - RecipeLen + k].val = OversampleWrites[k][2]

\* The overrides followed a calibration in which RX locked and TX did not.
C18_Witness ==
    /\ pc = "done"
    /\ cfg.enable_oversample
    /\ cfg.bist_prbs
    /\ HasTrue(rx_valid_delays)
    /\ ~HasTrue(tx_valid_delays)
    /\ Cardinality(OverrideAt) = RecipeLen
    /\ trace[Len(trace) - RecipeLen + 1] = SpiWrite(3, 84)

\* The positions of the reads of the PRBS synchronization status.
StatusReadAt == {i \in 1..Len(trace) : trace[i].op = "litepcie_readl"}

\* The grid of the direction whose delay register is `reg`.
GridOf(reg) ==
    IF reg = REG_RX_CLOCK_DATA_DELAY THEN rx_valid_delays ELSE tx_valid_delays

\* The status read at trace[i] directly follows the settle wait, which
\* directly follows a delay-register write; the cell that write selects
\* holds bit 0 of the word read; what follows the read is not another read.
ReadFollowsOwnWrite(i) ==
    /\ i >= 3
    /\ trace[i].csr = "CSR_AD9361_PRBS_RX_ADDR"
    /\ trace[i - 1] = [op |-> "mdelay", ms |-> SETTLE_MS]
    /\ trace[i - 2].op = "m2sdr_ad9361_spi_write"
    /\ trace[i - 2].reg \in {REG_RX_CLOCK_DATA_DELAY, REG_TX_CLOCK_DATA_DELAY}
    /\ LET clk == trace[i - 2].val \div NTAPS
           dat == trace[i - 2].val % NTAPS
       IN  /\ clk \in Taps
           /\ trace[i - 2].val = DelayWord(clk, dat)
           /\ GridOf(trace[i - 2].reg)[clk][dat] = trace[i].val % 2
    /\ i < Len(trace) => trace[i + 1].op # "litepcie_readl"

\* C19: each probe is write, settle, read: the value recorded for a cell is
\* bit 0 of a status read made after the delay-register write of that same
\* cell and the settle wait and before the write of the next cell; no status
\* read is attributed to a cell other than the one most recently written.
C19_ProbeWriteSettleRead ==
    pc \in {"rx_find", "tx_find", "done"} =>
        /\ \A i \in StatusReadAt : ReadFollowsOwnWrite(i)
        /\ \A i \in WritesTo(REG_RX_CLOCK_DATA_DELAY) \cup WritesTo(REG_TX_CLOCK_DATA_DELAY) :
              (i + 2 <= Len(trace) /\ trace[i + 1].op = "mdelay") =>
                  (i + 2) \in StatusReadAt

\* The TX scan is complete: the read that followed the write of cell (15, 13)
\* returned a word with bit 0 set and the cell holds 1.
C19_Witness ==
    /\ pc = "tx_find"
    /\ tx_valid_delays[15][13] = 1
    /\ LET i == Len(trace) - ScanLen + 3 * (15 * NTAPS + 13) + 3 IN
         /\ trace[i - 2] = SpiWrite(REG_TX_CLOCK_DATA_DELAY, DelayWord(15, 13))
         /\ trace[i - 1].op = "mdelay"
         /\ trace[i].op = "litepcie_readl"
         /\ trace[i].val = 1

\* The value the transceiver register `reg` holds: that of the last write.
RegValue(reg) == trace[LastWrite(reg)].val

\* C20: the TX scan and the TX commit never write the RX clock/data delay
\* register: no step taken after the RX commit adds a write to it, so that at
\* the end of bring-up it still holds the committed RX pair, or the last
\* probed pair (15, 15) when RX was not found, for every outcome of the TX
\* scan.
C20_RxRegisterKept ==
    [][/\ pc \in {"loopback_on", "tx_prbs_on", "tx_scan", "tx_settle", "tx_read",
                  "tx_find", "tx_commit", "oversample", "close"} =>
             \A i \in (Len(trace) + 1)..Len(trace') :
                 ~(/\ trace'[i].op = "m2sdr_ad9361_spi_write"
                   /\ trace'[i].reg = REG_RX_CLOCK_DATA_DELAY)
       /\ (pc \in {"loopback_on", "close"} /\ cfg.bist_prbs) =>
             RegValue(REG_RX_CLOCK_DATA_DELAY) =
                 IF HasTrue(rx_valid_delays)
                 THEN DelayWord(optimal_rx_clk_delay, optimal_rx_dat_delay)
                 ELSE DelayWord(NTAPS - 1, NTAPS - 1)]_vars

\* Both directions locked at (15, 13): after the TX commit the RX register
\* still holds the RX pair and the TX register holds the TX pair.
C20_Witness ==
    /\ pc = "done"
    /\ cfg.bist_prbs
    /\ optimal_rx_clk_delay = 15
    /\ optimal_tx_clk_delay = 15
    /\ RegValue(REG_RX_CLOCK_DATA_DELAY) = DelayWord(15, 13)
    /\ RegValue(REG_TX_CLOCK_DATA_DELAY) = DelayWord(15, 13)
    /\ LastWrite(REG_RX_CLOCK_DATA_DELAY) < LastWrite(REG_TX_CLOCK_DATA_DELAY) - ScanLen

(***************************************************************************)
(* What the calibration leaves behind                                      *)
(***************************************************************************)

\* The positions of the calls that set the transceiver loopback mode.
LoopbackAt == {i \in 1..Len(trace) : trace[i].op = "ad9361_bist_loopback"}

\* The positions of the writes to the FPGA TX-PRBS control register.
TxPrbsAt ==
    {i \in 1..Len(trace) : /\ trace[i].op = "litepcie_writel"
                           /\ trace[i].csr = "CSR_AD9361_PRBS_TX_ADDR"}

\* The last position of a non-empty set of positions.
LastOf(S) == CHOOSE i \in S : \A j \in S : j <= i

\* The loopback mode in effect: the argument of the last loopback call.
LoopbackInEffect == trace[LastOf(LoopbackAt)].arg

\* The value the FPGA TX-PRBS control register was last written with.
TxPrbsInEffect == trace[LastOf(TxPrbsAt)].val

\* C21: the calibration does not restore what it changes. When a bring-up
\* with the PRBS flag has finished, the loopback mode in effect is 1 and the
\* FPGA TX-PRBS is enabled, whatever loopback mode was requested: the
\* requested mode was set once, before the calibration, and the calibration's
\* own call is the last one. When a bring-up without the PRBS flag has
\* finished, the loopback mode in effect is the requested one, set by the
\* only loopback call, and the FPGA TX-PRBS register was never written.
C21_CalibrationNotRestored ==
    (pc = "done" /\ exit_status = 0) =>
        /\ LoopbackAt # {}
        /\ IF cfg.bist_prbs
           THEN /\ Cardinality(LoopbackAt) = 2
                /\ \E i \in LoopbackAt : i < LastOf(LoopbackAt)
                                          /\ trace[i].arg = cfg.loopback
                /\ LoopbackInEffect = 1
                /\ TxPrbsAt # {}
                /\ TxPrbsInEffect = 2 ^ CSR_AD9361_PRBS_TX_ENABLE_OFFSET
                /\ TxPrbsInEffect # 0
           ELSE /\ Cardinality(LoopbackAt) = 1
                /\ LoopbackInEffect = cfg.loopback
                /\ TxPrbsAt = {}

\* A finished bring-up with the PRBS flag that asked for loopback mode 0 and
\* is left with loopback mode 1 and the FPGA TX-PRBS enabled.
C21_Witness ==
    /\ pc = "done"
    /\ cfg.bist_prbs
    /\ cfg.loopback = 0
    /\ LoopbackAt # {}
    /\ LoopbackInEffect = 1
    /\ TxPrbsAt # {}
    /\ TxPrbsInEffect = 2 ^ CSR_AD9361_PRBS_TX_ENABLE_OFFSET

(***************************************************************************)
(* The two copies of the selection                                         *)
(***************************************************************************)

\* The outcome of a selection: found or not, and the delays.
Outcome(clk, dat) == [found |-> (clk # -1 /\ dat # -1), clk |-> clk, dat |-> dat]

\* What the RX copy of the selection code yields on `grid`.
RxOutcome(grid) ==
    LET r == RxFindFrom(grid, NoOptimal, 0) IN Outcome(r.clk, r.dat)

\* What the TX copy of the selection code yields on `grid`.
TxOutcome(grid) ==
    LET t == TxFindFrom(grid, NoOptimal, 0) IN Outcome(t.clk, t.dat)

\* C22: the RX and the TX selection compute the same function of the grid.
\* The outcome the RX selection reached on the RX grid is the one the TX copy
\* yields on that grid, and the outcome the TX selection reached on the TX
\* grid is the one the RX copy yields on that grid: same found / not found,
\* same clock and data delay. The TX outcome depends on the TX grid alone,
\* whatever maximum the RX selection left behind, and it leaves the RX
\* outcome as it was.
C22_SelectionCopiesAgree ==
    /\ RxSelected =>
          /\ Outcome(optimal_rx_clk_delay, optimal_rx_dat_delay)
                = TxOutcome(rx_valid_delays)
          /\ Outcome(optimal_rx_clk_delay, optimal_rx_dat_delay)
                = RxOutcome(rx_valid_delays)
    /\ TxSelected =>
          /\ Outcome(optimal_tx_clk_delay, optimal_tx_dat_delay)
                = RxOutcome(tx_valid_delays)
          /\ max_valid_delays = RxFindFrom(tx_valid_delays, NoOptimal, 0).max_valid_delays

\* A TX selection that found a run shorter than the run of 5 the RX
\* selection had found before it.
C22_Witness ==
    /\ pc = "tx_commit"
    /\ optimal_rx_clk_delay = 3
    /\ RxValidCount(rx_valid_delays, 3, 2) = 5
    /\ optimal_tx_clk_delay # -1
    /\ optimal_tx_dat_delay # -1
    /\ max_valid_delays \in 1..4

====
